---- MODULE Spec2Model ----
(***************************************************************************)
(* Model of the music-data ingestion pipeline: main.py (run_pipeline) and  *)
(* src/Ingestion.py (create_spark_session, csv_to_parquet, convert_all).   *)
(* The object store, the local file system and the process environment are *)
(* state; every step of the pipeline that an outside change of a source    *)
(* file can fall between is an action of its own.                          *)
(***************************************************************************)
EXTENDS Integers, Sequences, FiniteSets, TLC

VARIABLES env, pc, spark, remote_access, s3, fs, dir_made, idx, calls,
          call, reader, df_count, results, raw_parquet, error,
          runs, changes, last_written

vars == <<env, pc, spark, remote_access, s3, fs, dir_made, idx, calls,
          call, reader, df_count, results, raw_parquet, error,
          runs, changes, last_written>>

-----------------------------------------------------------------------------
(* Bounds of the model *)

\* longest source file, in data rows (the header line not counted)
MaxRows == 1
\* how many times the pipeline process is run
MaxRuns == 2
\* how many times a source object is replaced from outside the pipeline
MaxChanges == 1

-----------------------------------------------------------------------------
(* Module-level configuration of Ingestion.py *)

\* os.getenv("S3_BUCKET", "musicrec-data") with the variable unset
S3_BUCKET == "musicrec-data"

Datasets == {"tracks", "genres", "artists"}

S3_INPUT ==
  [d \in Datasets |->
     CASE d = "tracks"  -> "s3a://" \o S3_BUCKET \o "/raw_tracks.csv"
       [] d = "genres"  -> "s3a://" \o S3_BUCKET \o "/raw_genres.csv"
       [] d = "artists" -> "s3a://" \o S3_BUCKET \o "/raw_artists.csv"]

LOCAL_OUTPUT ==
  [d \in Datasets |->
     CASE d = "tracks"  -> "data/processed/tracks.parquet"
       [] d = "genres"  -> "data/processed/genres.parquet"
       [] d = "artists" -> "data/processed/artists.parquet"]

TRACKS_SCHEMA ==
  << <<"track_id", "INT">>, <<"album_id", "INT">>,
     <<"album_title", "STRING">>, <<"album_url", "STRING">>,
     <<"artist_id", "INT">>, <<"artist_name", "STRING">>,
     <<"artist_url", "STRING">>, <<"artist_website", "STRING">>,
     <<"license_image_file", "STRING">>,
     <<"license_image_file_large", "STRING">>,
     <<"license_parent_id", "INT">>, <<"license_title", "STRING">>,
     <<"license_url", "STRING">>, <<"tags", "STRING">>,
     <<"track_bit_rate", "INT">>, <<"track_comments", "INT">>,
     <<"track_composer", "STRING">>, <<"track_copyright_c", "STRING">>,
     <<"track_copyright_p", "STRING">>, <<"track_date_created", "STRING">>,
     <<"track_date_recorded", "STRING">>, <<"track_disc_number", "INT">>,
     <<"track_duration", "STRING">>, <<"track_explicit", "STRING">>,
     <<"track_explicit_notes", "STRING">>, <<"track_favorites", "INT">>,
     <<"track_file", "STRING">>, <<"track_genres", "STRING">>,
     <<"track_image_file", "STRING">>, <<"track_information", "STRING">>,
     <<"track_instrumental", "INT">>, <<"track_interest", "INT">>,
     <<"track_language_code", "STRING">>, <<"track_listens", "INT">>,
     <<"track_lyricist", "STRING">>, <<"track_number", "INT">>,
     <<"track_publisher", "STRING">>, <<"track_title", "STRING">>,
     <<"track_url", "STRING">> >>

\* the genres schema with genre_parent_id left out
GENRES_SCHEMA_no_parent ==
  << <<"genre_id", "INT">>, <<"genre_color", "STRING">>,
     <<"genre_handle", "STRING">>, <<"genre_title", "STRING">> >>

GENRES_SCHEMA ==
  << <<"genre_id", "INT">>, <<"genre_color", "STRING">>,
     <<"genre_handle", "STRING">>, <<"genre_parent_id", "INT">>,
     <<"genre_title", "STRING">> >>

ARTISTS_SCHEMA ==
  << <<"artist_id", "INT">>, <<"artist_active_year_begin", "INT">>,
     <<"artist_active_year_end", "INT">>,
     <<"artist_associated_labels", "STRING">>, <<"artist_bio", "STRING">>,
     <<"artist_comments", "INT">>, <<"artist_contact", "STRING">>,
     <<"artist_date_created", "STRING">>,
     <<"artist_donation_url", "STRING">>, <<"artist_favorites", "INT">>,
     <<"artist_flattr_name", "STRING">>, <<"artist_handle", "STRING">>,
     <<"artist_image_file", "STRING">>, <<"artist_images", "STRING">>,
     <<"artist_latitude", "DOUBLE">>, <<"artist_location", "STRING">>,
     <<"artist_longitude", "DOUBLE">>, <<"artist_members", "STRING">>,
     <<"artist_name", "STRING">>, <<"artist_paypal_name", "STRING">>,
     <<"artist_related_projects", "STRING">>, <<"artist_url", "STRING">>,
     <<"artist_website", "STRING">>, <<"artist_wikipedia_page", "STRING">>,
     <<"tags", "STRING">> >>

-----------------------------------------------------------------------------
(* The process environment: os.getenv gives None for an unset variable *)

None == "<None>"

CredValues == {None, "", "AKIAEXAMPLE"}

\* Python truthiness of os.getenv's result: `not x` holds of None and of ""
Falsy(x) == x = None \/ x = ""

\* the guard of line 110, had it tested `is None` instead of truthiness
CredentialsMissing_none_only(e) ==
  e.AWS_ACCESS_KEY_ID = None \/ e.AWS_SECRET_ACCESS_KEY = None

\* the guard of line 110
CredentialsMissing(e) ==
  Falsy(e.AWS_ACCESS_KEY_ID) \/ Falsy(e.AWS_SECRET_ACCESS_KEY)

-----------------------------------------------------------------------------
(* Source files and the CSV reader *)

\* a data line of a source file: one that fits the declared schema, or one
\* that does not (wrong number of fields, or a field that does not cast)
RowKinds == {"ok", "malformed"}

RECURSIVE SeqsUpTo(_, _)
SeqsUpTo(S, n) ==
  IF n = 0 THEN {<<>>}
  ELSE LET shorter == SeqsUpTo(S, n - 1)
       IN  shorter \cup {Append(s, x) : s \in shorter, x \in S}

\* a source object: the header line, then the data lines
Files == {<<"header">> \o rows : rows \in SeqsUpTo(RowKinds, MaxRows)}

\* the parse mode of a reader on which .option("mode", ...) was never called
DefaultMode == "PERMISSIVE"

\* lines 147-157: the reader's options
ReaderFor(schema_ddl, multiline) ==
  [format    |-> "csv",
   header    |-> TRUE,
   schema    |-> schema_ddl,
   multiLine |-> multiline,
   mode      |-> IF multiline THEN "PERMISSIVE" ELSE DefaultMode]

\* one data line under a permissive read: a line that does not fit the
\* schema is kept, with the fields that could not be read set to null
ParseRow(r) == IF r = "malformed" THEN "nulled" ELSE r

RECURSIVE ParseRows(_)
ParseRows(rows) ==
  IF rows = <<>> THEN <<>>
  ELSE <<ParseRow(Head(rows))>> \o ParseRows(Tail(rows))

HasMalformed(lines) == \E k \in 1..Len(lines) : lines[k] = "malformed"

\* the data lines of a file for a reader: header=true drops the first line
DataLines(rd, file) == IF rd.header /\ file # <<>> THEN Tail(file) ELSE file

\* one evaluation of the lazily loaded frame: the parse fails as a whole
\* under FAILFAST when a line does not fit, and keeps every line otherwise
EvalFails(rd, file) == rd.mode = "FAILFAST" /\ HasMalformed(DataLines(rd, file))

EvalRows(rd, file) == ParseRows(DataLines(rd, file))

\* .mode("append"): the frame's rows are added to the destination
WriteMode_append(old, rows) == old \o rows

\* .mode("overwrite"): the destination is replaced by the frame's rows
WriteMode(old, rows) == rows

NoOutput == [exists |-> FALSE, rows |-> <<>>]

\* a failed write that cleans up the whole output directory
FailedWriteOutcomes_cleanup(files, path) ==
  {[p \in DOMAIN files |-> NoOutput]}

\* a write job that fails: overwrite has either not yet touched its
\* destination or has already removed it; no other path is touched
FailedWriteOutcomes(files, path) ==
  {files, [files EXCEPT ![path] = NoOutput]}

\* an exception that convert_all catches, going back to its pending call
Raise_swallowed(stage) ==
  [pc |-> IF stage = "ValueError" THEN "failed" ELSE "call", error |-> stage]

\* an exception raised at a stage of the run: nothing in main.py or in
\* Ingestion.py catches it, so the run ends there
Raise(stage) == [pc |-> "failed", error |-> stage]

NoCall == [name |-> "", input_path |-> "", output_path |-> "",
           schema_ddl |-> <<>>, multiline |-> FALSE]

NoReader == [format |-> "", header |-> FALSE, schema |-> <<>>,
             multiLine |-> FALSE, mode |-> ""]

\* convert_all with the genres call placed first
Conversions_genres_first ==
  << [name |-> "genres", input_path |-> S3_INPUT["genres"],
      output_path |-> LOCAL_OUTPUT["genres"],
      schema_ddl |-> GENRES_SCHEMA, multiline |-> FALSE],
     [name |-> "tracks", input_path |-> S3_INPUT["tracks"],
      output_path |-> LOCAL_OUTPUT["tracks"],
      schema_ddl |-> TRACKS_SCHEMA, multiline |-> TRUE],
     [name |-> "artists", input_path |-> S3_INPUT["artists"],
      output_path |-> LOCAL_OUTPUT["artists"],
      schema_ddl |-> ARTISTS_SCHEMA, multiline |-> TRUE] >>

\* convert_all with the genres call writing to the tracks output path
Conversions_shared_output ==
  << [name |-> "tracks", input_path |-> S3_INPUT["tracks"],
      output_path |-> LOCAL_OUTPUT["tracks"],
      schema_ddl |-> TRACKS_SCHEMA, multiline |-> TRUE],
     [name |-> "genres", input_path |-> S3_INPUT["genres"],
      output_path |-> LOCAL_OUTPUT["tracks"],
      schema_ddl |-> GENRES_SCHEMA, multiline |-> FALSE],
     [name |-> "artists", input_path |-> S3_INPUT["artists"],
      output_path |-> LOCAL_OUTPUT["artists"],
      schema_ddl |-> ARTISTS_SCHEMA, multiline |-> TRUE] >>

\* the calls of convert_all, in program order (lines 178-200)
Conversions ==
  << [name |-> "tracks", input_path |-> S3_INPUT["tracks"],
      output_path |-> LOCAL_OUTPUT["tracks"],
      schema_ddl |-> TRACKS_SCHEMA, multiline |-> TRUE],
     [name |-> "genres", input_path |-> S3_INPUT["genres"],
      output_path |-> LOCAL_OUTPUT["genres"],
      schema_ddl |-> GENRES_SCHEMA, multiline |-> FALSE],
     [name |-> "artists", input_path |-> S3_INPUT["artists"],
      output_path |-> LOCAL_OUTPUT["artists"],
      schema_ddl |-> ARTISTS_SCHEMA, multiline |-> TRUE] >>

InputPaths == {S3_INPUT[d] : d \in Datasets}
OutputPaths == {LOCAL_OUTPUT[d] : d \in Datasets}

EmptyResults == [d \in {} |-> d]

-----------------------------------------------------------------------------
(* Initial state: a fresh checkout (no output yet), any environment, any    *)
(* content of the three source objects                                      *)

Init ==
  /\ env \in [AWS_ACCESS_KEY_ID : CredValues, AWS_SECRET_ACCESS_KEY : CredValues]
  /\ pc = "start"
  /\ spark = "none"
  /\ remote_access = FALSE
  /\ s3 \in [InputPaths -> Files]
  /\ fs = [p \in OutputPaths |-> NoOutput]
  /\ dir_made = FALSE
  /\ idx = 0
  /\ calls = <<>>
  /\ call = NoCall
  /\ reader = NoReader
  /\ df_count = 0
  /\ results = EmptyResults
  /\ raw_parquet = EmptyResults
  /\ error = "none"
  /\ runs = 1
  /\ changes = 0
  /\ last_written = [p \in OutputPaths |-> <<>>]

-----------------------------------------------------------------------------
(* main.py, run_pipeline line 9: create_spark_session (lines 104-138) *)

create_spark_session ==
  /\ pc = "start"
  /\ IF CredentialsMissing(env)
       THEN /\ pc' = Raise("ValueError").pc
            /\ error' = Raise("ValueError").error
            /\ spark' = spark
       ELSE /\ pc' = "convert_all"
            /\ error' = error
            /\ spark' = "session"
  /\ UNCHANGED <<env, remote_access, s3, fs, dir_made, idx, calls, call,
                 reader, df_count, results, raw_parquet, runs, changes,
                 last_written>>

(* convert_all, lines 174-176: the output directory and the empty mapping *)
convert_all_begin ==
  /\ pc = "convert_all"
  /\ dir_made' = TRUE
  /\ results' = EmptyResults
  /\ idx' = 1
  /\ pc' = "call"
  /\ UNCHANGED <<env, spark, remote_access, s3, fs, calls, call, reader,
                 df_count, raw_parquet, error, runs, changes, last_written>>

(* convert_all calls csv_to_parquet for its idx-th dataset; csv_to_parquet  *)
(* lines 142-159: the reader is configured and the path is resolved; the    *)
(* frame is lazy, no data line is read yet                                  *)
csv_to_parquet_load ==
  /\ pc = "call"
  /\ idx \in 1..Len(Conversions)
  /\ call' = Conversions[idx]
  /\ calls' = Append(calls, [name |-> Conversions[idx].name,
                             multiline |-> Conversions[idx].multiline])
  /\ reader' = ReaderFor(Conversions[idx].schema_ddl, Conversions[idx].multiline)
  /\ remote_access' = TRUE
  /\ \/ /\ pc' = "count"
        /\ error' = error
     \/ /\ pc' = Raise("load").pc
        /\ error' = Raise("load").error
  /\ UNCHANGED <<env, spark, s3, fs, dir_made, idx, df_count, results,
                 raw_parquet, runs, changes, last_written>>

(* csv_to_parquet with the overwrite started before the count: a count that *)
(* fails finds the destination already removed                             *)
csv_to_parquet_count_after_write ==
  /\ pc = "count"
  /\ remote_access' = TRUE
  /\ \/ /\ ~EvalFails(reader, s3[call.input_path])
        /\ df_count' = Len(EvalRows(reader, s3[call.input_path]))
        /\ pc' = "write"
        /\ error' = error
        /\ fs' = fs
     \/ /\ df_count' = df_count
        /\ pc' = Raise("count").pc
        /\ error' = Raise("count").error
        /\ fs' = [fs EXCEPT ![call.output_path] = NoOutput]
  /\ UNCHANGED <<env, spark, s3, dir_made, idx, calls, call, reader,
                 results, raw_parquet, runs, changes, last_written>>

(* csv_to_parquet line 161: df.count(), the first evaluation of the frame *)
csv_to_parquet_count ==
  /\ pc = "count"
  /\ remote_access' = TRUE
  /\ \/ /\ ~EvalFails(reader, s3[call.input_path])
        /\ df_count' = Len(EvalRows(reader, s3[call.input_path]))
        /\ pc' = "write"
        /\ error' = error
     \/ \* the source cannot be read, or the parse fails
        /\ df_count' = df_count
        /\ pc' = Raise("count").pc
        /\ error' = Raise("count").error
  /\ UNCHANGED <<env, spark, s3, fs, dir_made, idx, calls, call, reader,
                 results, raw_parquet, runs, changes, last_written>>

(* csv_to_parquet lines 164-171: df.write, the second evaluation of the     *)
(* frame, then the return into convert_all, which stores the result under   *)
(* the dataset's name and goes on to its next call or returns the mapping   *)
(* (line 202) to run_pipeline (main.py line 11)                             *)
csv_to_parquet_write ==
  /\ pc = "write"
  /\ remote_access' = TRUE
  /\ \/ /\ ~EvalFails(reader, s3[call.input_path])
        /\ fs' = [fs EXCEPT ![call.output_path] =
                    [exists |-> TRUE,
                     rows   |-> WriteMode(fs[call.output_path].rows,
                                          EvalRows(reader, s3[call.input_path]))]]
        /\ last_written' = [last_written EXCEPT ![call.output_path] =
                              DataLines(reader, s3[call.input_path])]
        /\ results' = (call.name :> [count |-> df_count,
                                     output_path |-> call.output_path]) @@ results
        /\ idx' = idx + 1
        /\ call' = NoCall
        /\ reader' = NoReader
        /\ IF idx = Len(Conversions)
             THEN /\ raw_parquet' = results'
                  /\ pc' = "done"
             ELSE /\ raw_parquet' = raw_parquet
                  /\ pc' = "call"
        /\ error' = error
     \/ \* the source cannot be read, the parse fails, or the disk does
        /\ fs' \in FailedWriteOutcomes(fs, call.output_path)
        /\ pc' = Raise("write").pc
        /\ error' = Raise("write").error
        /\ UNCHANGED <<last_written, results, idx, call, reader, raw_parquet>>
  /\ UNCHANGED <<env, spark, s3, dir_made, calls, df_count, runs, changes>>

(* after a run that completed, the pipeline process is started again on the *)
(* same machine: the process state is fresh, the object store and the local *)
(* files are kept                                                           *)
run_pipeline_again ==
  /\ pc = "done"
  /\ runs < MaxRuns
  /\ runs' = runs + 1
  /\ pc' = "start"
  /\ spark' = "none"
  /\ remote_access' = FALSE
  /\ idx' = 0
  /\ calls' = <<>>
  /\ call' = NoCall
  /\ reader' = NoReader
  /\ df_count' = 0
  /\ results' = EmptyResults
  /\ raw_parquet' = EmptyResults
  /\ error' = "none"
  /\ UNCHANGED <<env, s3, fs, dir_made, changes, last_written>>

(* somebody else replaces a source object in the bucket.  The pipeline reads *)
(* a source twice, at the count and at the write, so a replacement is taken *)
(* where it can be told apart from another initial content: between the two *)
(* reads of the source being converted, and between two runs                *)
source_replaced ==
  /\ changes < MaxChanges
  /\ pc \in {"write", "done"}
  /\ \E p \in InputPaths, f \in Files :
       /\ pc = "write" => p = call.input_path
       /\ f # s3[p]
       /\ s3' = [s3 EXCEPT ![p] = f]
  /\ changes' = changes + 1
  /\ UNCHANGED <<env, pc, spark, remote_access, fs, dir_made, idx, calls,
                 call, reader, df_count, results, raw_parquet, error, runs,
                 last_written>>

Next ==
  \/ create_spark_session
  \/ convert_all_begin
  \/ csv_to_parquet_load
  \/ csv_to_parquet_count
  \/ csv_to_parquet_write
  \/ run_pipeline_again
  \/ source_replaced

Spec == Init /\ [][Next]_vars

-----------------------------------------------------------------------------
(* Properties *)

Range(f) == {f[x] : x \in DOMAIN f}

\* the dataset whose conversion is in progress
Current == calls[Len(calls)].name

Converting == pc \in {"count", "write"}

\* C1: with AWS_ACCESS_KEY_ID or AWS_SECRET_ACCESS_KEY unset or empty the run
\* gets no further than create_spark_session, which fails with ValueError:
\* no session, no remote access, no output directory, no output file.
C1_NoCredentialsNoSession ==
  (\/ env.AWS_ACCESS_KEY_ID \in {None, ""}
   \/ env.AWS_SECRET_ACCESS_KEY \in {None, ""})
  => /\ spark = "none"
     /\ ~remote_access
     /\ ~dir_made
     /\ \A p \in DOMAIN fs : ~fs[p].exists
     /\ calls = <<>>
     /\ pc \in {"start", "failed"}
     /\ pc = "failed" => error = "ValueError"

C1_Witness ==
  /\ env.AWS_ACCESS_KEY_ID = "AKIAEXAMPLE"
  /\ env.AWS_SECRET_ACCESS_KEY = ""
  /\ pc = "failed"
  /\ error = "ValueError"

\* C2: every result a conversion has returned carries a count equal to the
\* number of rows the conversion wrote to its destination.
C2_CountMatchesWritten ==
  \A d \in DOMAIN results :
    results[d].count = Len(fs[results[d].output_path].rows)

\* the order and the multiline flags the specification gives the conversions
ExpectedCalls ==
  << [name |-> "tracks", multiline |-> TRUE],
     [name |-> "genres", multiline |-> FALSE],
     [name |-> "artists", multiline |-> TRUE] >>

\* C3: the conversions are started in the order tracks, genres, artists, with
\* multiline on for tracks and artists and off for genres; a conversion is
\* started only when all earlier ones have returned their result; the mapping
\* returned on full success has exactly the keys tracks, genres, artists, each
\* with a count and the dataset's output path.
C3_SequentialOrder ==
  /\ Len(calls) <= 3
  /\ calls = SubSeq(ExpectedCalls, 1, Len(calls))
  /\ Converting =>
       /\ call.name = Current
       /\ call.multiline = calls[Len(calls)].multiline
       /\ reader.multiLine = call.multiline
       /\ DOMAIN results = {calls[k].name : k \in 1..(Len(calls) - 1)}
  /\ pc = "call" => DOMAIN results = {calls[k].name : k \in 1..Len(calls)}
  /\ pc = "done" =>
       /\ Len(calls) = 3
       /\ DOMAIN raw_parquet = {"tracks", "genres", "artists"}
       /\ \A d \in DOMAIN raw_parquet :
            /\ DOMAIN raw_parquet[d] = {"count", "output_path"}
            /\ raw_parquet[d].count \in Nat
            /\ raw_parquet[d].output_path = LOCAL_OUTPUT[d]
  /\ pc # "done" => raw_parquet = EmptyResults

C3_Witness ==
  /\ pc = "done"
  /\ Len(calls) = 3
  /\ raw_parquet["genres"].count = 1

C4_LatestRunOnly ==
  \A p \in DOMAIN fs : fs[p].exists => fs[p].rows = ParseRows(last_written[p])

C4_RewriteSame ==
  (/\ pc = "write"
   /\ pc' \in {"call", "done"}
   /\ fs[call.output_path].exists
   /\ last_written[call.output_path] = Tail(s3[call.input_path]))
  => fs'[call.output_path] = fs[call.output_path]

\* C4: a destination that exists holds exactly the rows of the latest write
\* to it, whatever it held before, and a write from a source whose data lines
\* are those of the previous write leaves the destination as it was.
C4_OverwriteIdempotent == [](C4_LatestRunOnly) /\ [][C4_RewriteSame]_vars

C4_Witness ==
  /\ runs = 2
  /\ pc = "done"
  /\ changes = 1
  /\ \A p \in DOMAIN fs : fs[p].exists /\ Len(fs[p].rows) = MaxRows

\* C5: a genres conversion (multiline off) that has returned a result has not
\* read a source with a line that mismatches the schema: such a line makes
\* the conversion fail.
C5_StrictGenresFails ==
  \A k \in 1..Len(ExpectedCalls) :
    (/\ ~ExpectedCalls[k].multiline
     /\ ExpectedCalls[k].name \in DOMAIN results)
    => ~HasMalformed(last_written[results[ExpectedCalls[k].name].output_path])

C6_EarlierOutputKept ==
  pc = "failed" =>
    \A d \in DOMAIN results :
      /\ fs[results[d].output_path].exists
      /\ fs[results[d].output_path].rows =
           ParseRows(last_written[results[d].output_path])

C6_FailingStepKeeps ==
  pc' = "failed" =>
    \A d \in DOMAIN results :
      fs'[results[d].output_path] = fs[results[d].output_path]

\* C6: when a run ends in a failure, the output of every conversion that
\* returned before in that run is in place, with the rows that conversion
\* wrote, and the failing step has not changed it.
C6_NoRollback == [](C6_EarlierOutputKept) /\ [][C6_FailingStepKeeps]_vars

C6_Witness ==
  /\ pc = "failed"
  /\ error = "write"
  /\ DOMAIN results = {"tracks", "genres"}
  /\ Len(fs[LOCAL_OUTPUT["tracks"]].rows) = 1
  /\ ~fs[LOCAL_OUTPUT["artists"]].exists

C7_FailedMeansStopped ==
  /\ error # "none" <=> pc = "failed"
  /\ pc = "failed" =>
       /\ raw_parquet = EmptyResults
       /\ error \in {"load", "count", "write"} =>
            /\ call.name \notin DOMAIN results
            /\ Len(calls) = Cardinality(DOMAIN results) + 1
  /\ \A d \in DOMAIN results : fs[results[d].output_path].exists

C7_NothingAfterFailure ==
  pc = "failed" =>
    /\ pc' = "failed"
    /\ calls' = calls
    /\ results' = results
    /\ raw_parquet' = raw_parquet
    /\ fs' = fs

\* C7: an error is recorded only in a run that has stopped; a stopped run has
\* returned no mapping and holds no result for the conversion that failed;
\* every result held stands for a completed write; after the failure no step
\* of the run follows (no later conversion, no retry).
C7_AllOrAbort == [](C7_FailedMeansStopped) /\ [][C7_NothingAfterFailure]_vars

C7_Witness ==
  /\ pc = "failed"
  /\ error = "count"
  /\ call.name = "genres"
  /\ DOMAIN results = {"tracks"}

C8_OwnSource ==
  Converting => call.input_path = S3_INPUT[Current]

C8_OwnOutputOnly ==
  /\ \A d \in Datasets :
       fs'[LOCAL_OUTPUT[d]] # fs[LOCAL_OUTPUT[d]] => (pc = "write" /\ d = Current)
  /\ (pc = "count" /\ pc' = "write") =>
       df_count' = Len(Tail(s3[S3_INPUT[Current]]))
  /\ (pc = "write" /\ pc' \in {"call", "done"}) =>
       fs'[LOCAL_OUTPUT[Current]] =
         [exists |-> TRUE, rows |-> ParseRows(Tail(s3[S3_INPUT[Current]]))]

\* C8: a conversion reads its own dataset's source and no other, a step
\* changes no output but that of the dataset being converted, and what a
\* conversion counts and writes is given by its own source alone.
C8_Isolation == [](C8_OwnSource) /\ [][C8_OwnOutputOnly]_vars

C8_Witness ==
  /\ pc = "call"
  /\ DOMAIN results = {"tracks", "genres"}
  /\ fs[LOCAL_OUTPUT["tracks"]].rows = <<"ok">>
  /\ fs[LOCAL_OUTPUT["genres"]].rows = <<"nulled">>
  /\ ~fs[LOCAL_OUTPUT["artists"]].exists

\* C9 as stated: the schema applied to tracks has 38 columns, the one applied
\* to genres 5 and the one applied to artists 25.
C9_ColumnCounts38 ==
  Converting =>
    Len(reader.schema) = CASE Current = "tracks"  -> 38
                           [] Current = "genres"  -> 5
                           [] Current = "artists" -> 25

\* C9 amended: the schema applied to tracks has 39 columns, the one applied
\* to genres 5 and the one applied to artists 25.
C9_ColumnCounts39 ==
  Converting =>
    /\ reader.schema = call.schema_ddl
    /\ Len(reader.schema) = CASE Current = "tracks"  -> 39
                              [] Current = "genres"  -> 5
                              [] Current = "artists" -> 25

C9_Witness ==
  /\ pc = "count"
  /\ Current = "tracks"
  /\ Len(reader.schema) = 39

C10_CountFailure ==
  /\ (pc = "count" /\ pc' = "failed") => (fs' = fs /\ error' = "count")
  /\ (pc = "failed" /\ error = "count") => (pc' # "write" /\ fs' = fs)
  /\ pc' = "write" => pc \in {"count", "write"}

\* C10: a count step that fails leaves every output as it was and ends the
\* run: the write step of that conversion is never reached.
C10_CountBeforeWrite == [][C10_CountFailure]_vars

C10_Witness ==
  /\ pc = "failed"
  /\ error = "count"
  /\ runs = 2
  /\ call.name = "tracks"
  /\ fs[LOCAL_OUTPUT["tracks"]].rows = <<"ok">>

====
